---- MODULE Spec2Model ----
(***************************************************************************)
(* Model of the license / quota engine and the bot control signal of the   *)
(* bot backend: the UserLicense documents and their methods, the auth and  *)
(* license middleware, the request handlers that use them, and the two bot *)
(* status stores with the services that drive them.                        *)
(*                                                                         *)
(* A request handler is an async function: between two awaits it runs      *)
(* alone, so every action below is one storage operation together with the *)
(* synchronous code that follows it up to the next await.                  *)
(***************************************************************************)
EXTENDS Integers, FiniteSets, Sequences, TLC

VARIABLES
    licenses,     \* UserLicense collection: userId -> document
    now,          \* wall clock (new Date())
    reqs,         \* in-flight request handlers: position and local data
    resp,         \* the response most recently sent (with the event emitted)
    base,         \* usage counters at start / since the last reset
    incs,         \* incrementUsage saves completed per user and counter
    nreq,         \* usage requests accepted so far
    botRecs,      \* BotStatus collection (userID, license, botStatus, isRunning)
    activeBots,   \* BotService.activeBots (set of keys of the Map)
    botStatuses,  \* BotService.botStatuses
    statusRecs,   \* bot status collection used by BotStatusService
    cron,         \* the scheduled daily callbacks: position and run record
    warmup,       \* WarmupSettings collection: key -> document
    limits,       \* DailyLimits collection: key -> document
    copies        \* number of stored documents per collection and key

vars == <<licenses, now, reqs, resp, base, incs, nreq,
          botRecs, activeBots, botStatuses, statusRecs, cron, warmup,
          limits, copies>>

botVars == <<botRecs, activeBots, botStatuses, statusRecs>>

-----------------------------------------------------------------------------
(* Bounds *)

MaxNow == 2
MaxRequests == 2

Users == {"u1", "u2"}
Procs == {"r1", "r2"}

Tiers == {"trial", "basic", "premium", "enterprise"}

\* the action types the license methods know, and two they do not
UsageActions == {"connection", "message", "search", "session"}
FeatureActions == {"advanced_features", "export_data", "api_access"}
ActionTypes == UsageActions \cup FeatureActions \cup {"bot_control"}

-----------------------------------------------------------------------------
(* UserLicense documents *)

\* permission sets written by createTrialLicense and upgradeLicense
TierPermissions(t) ==
    CASE t = "basic" ->
           [maxDailyConnections |-> 15, maxDailyMessages |-> 10,
            maxSearchKeywords |-> 10, canUseAdvancedFeatures |-> TRUE,
            canExportData |-> TRUE, canUseAPI |-> FALSE]
      [] t = "premium" ->
           [maxDailyConnections |-> 50, maxDailyMessages |-> 25,
            maxSearchKeywords |-> 25, canUseAdvancedFeatures |-> TRUE,
            canExportData |-> TRUE, canUseAPI |-> TRUE]
      [] t = "enterprise" ->
           [maxDailyConnections |-> 100, maxDailyMessages |-> 50,
            maxSearchKeywords |-> 50, canUseAdvancedFeatures |-> TRUE,
            canExportData |-> TRUE, canUseAPI |-> TRUE]
      [] OTHER ->
           [maxDailyConnections |-> 5, maxDailyMessages |-> 3,
            maxSearchKeywords |-> 3, canUseAdvancedFeatures |-> FALSE,
            canExportData |-> FALSE, canUseAPI |-> FALSE]

\* DailyLimits.maxSearches default
DefaultMaxSearches == 10

ZeroUsage ==
    [connectionsUsed |-> 0, messagesUsed |-> 0,
     searchesPerformed |-> 0, totalSessions |-> 0]

\* this.isActive && this.expiresAt > new Date()
isLicenseValid(doc, t) == doc.isActive /\ doc.expiresAt > t

\* this.expiresAt < new Date()
isLicenseExpired(doc, t) == doc.expiresAt < t

canPerformAction_leq(doc, actionType, t) ==
    IF ~isLicenseValid(doc, t) THEN FALSE
    ELSE CASE actionType = "connection" ->
                doc.totalUsage.connectionsUsed <= doc.permissions.maxDailyConnections
           [] actionType = "message" ->
                doc.totalUsage.messagesUsed <= doc.permissions.maxDailyMessages
           [] actionType = "advanced_features" -> doc.permissions.canUseAdvancedFeatures
           [] actionType = "export_data" -> doc.permissions.canExportData
           [] actionType = "api_access" -> doc.permissions.canUseAPI
           [] OTHER -> TRUE

\* canPerformAction without the isLicenseValid check
canPerformAction_anyLicense(doc, actionType, t) ==
    CASE actionType = "connection" ->
            doc.totalUsage.connectionsUsed < doc.permissions.maxDailyConnections
       [] actionType = "message" ->
            doc.totalUsage.messagesUsed < doc.permissions.maxDailyMessages
       [] actionType = "advanced_features" -> doc.permissions.canUseAdvancedFeatures
       [] actionType = "export_data" -> doc.permissions.canExportData
       [] actionType = "api_access" -> doc.permissions.canUseAPI
       [] OTHER -> TRUE

canPerformAction(doc, actionType, t) ==
    IF ~isLicenseValid(doc, t) THEN FALSE
    ELSE CASE actionType = "connection" ->
                doc.totalUsage.connectionsUsed < doc.permissions.maxDailyConnections
           [] actionType = "message" ->
                doc.totalUsage.messagesUsed < doc.permissions.maxDailyMessages
           [] actionType = "advanced_features" -> doc.permissions.canUseAdvancedFeatures
           [] actionType = "export_data" -> doc.permissions.canExportData
           [] actionType = "api_access" -> doc.permissions.canUseAPI
           [] OTHER -> TRUE

\* the totalUsage path that incrementUsage modifies ("none": no case matches)
UsagePath(actionType) ==
    CASE actionType = "connection" -> "connectionsUsed"
      [] actionType = "message" -> "messagesUsed"
      [] actionType = "search" -> "searchesPerformed"
      [] actionType = "session" -> "totalSessions"
      [] OTHER -> "none"

\* the synchronous part of incrementUsage: the loaded copy after the += 1
incrementUsage(doc, actionType) ==
    IF UsagePath(actionType) = "none" THEN doc
    ELSE [doc EXCEPT !.totalUsage[UsagePath(actionType)] = @ + 1]

\* this.save(): writes the modified path of the copy with $set
save(stored, doc, path) ==
    IF path = "none" THEN stored
    ELSE [stored EXCEPT !.totalUsage[path] = doc.totalUsage[path]]

-----------------------------------------------------------------------------
(* Middleware *)

\* req.path is relative to the mount point of the router
Paths == {"/info", "/check-permission", "/emergency-stop", "/bot/start"}

PathIncludesBot(path) == path \in {"/bot/start"}

getRequiredPermission(path) ==
    IF PathIncludesBot(path) THEN "bot_control" ELSE "none"

authMiddleware(doc) ==
    IF ~doc.isActive THEN "401 User account is deactivated" ELSE "next"

licenseMiddleware_quotaFirst(doc, path, t) ==
    IF ~doc.isActive THEN "403 License is inactive"
    ELSE IF PathIncludesBot(path) /\ ~canPerformAction(doc, "bot_control", t)
    THEN "403 Daily bot control limit exceeded"
    ELSE IF isLicenseExpired(doc, t) THEN "403 License has expired"
    ELSE IF getRequiredPermission(path) # "none"
    THEN "500 License verification failed"
    ELSE "next"

\* userLicense is req.user (it always carries a licenseKey); hasPermission is
\* no method of the document, so a required permission ends in the catch
licenseMiddleware(doc, path, t) ==
    IF ~doc.isActive THEN "403 License is inactive"
    ELSE IF isLicenseExpired(doc, t) THEN "403 License has expired"
    ELSE IF PathIncludesBot(path) /\ ~canPerformAction(doc, "bot_control", t)
    THEN "403 Daily bot control limit exceeded"
    ELSE IF getRequiredPermission(path) # "none"
    THEN "500 License verification failed"
    ELSE "next"

\* app.use(mount, authMiddleware, licenseMiddleware, router)
Gate(doc, path, t) ==
    IF authMiddleware(doc) # "next" THEN authMiddleware(doc)
    ELSE licenseMiddleware(doc, path, t)

-----------------------------------------------------------------------------
(* Scheduled daily callbacks *)

\* "license": LicenseService.initializeScheduledTasks; "server": server.js
Jobs == {"license", "server"}

\* no run in progress; lastFired is the day of the last firing, last tells
\* how the last run ended ("failed": in the catch, with the error logged)
JobIdle == [pc |-> "idle", lastFired |-> 0, runAt |-> 0, last |-> "none"]

\* keys of the warm-up documents: the routes of routes/settings.js use the
\* one document findOne() returns ("shared"), the per-user routes look the
\* document up by userId
WarmupKeys == Users \cup {"shared"}

Collections == {"DailyLimits", "WarmupSettings"}

\* an empty DailyLimits collection, and the document counts of both
\* collections when no WarmupSettings document is stored either
NoLimits ==
    /\ limits = [k \in WarmupKeys |-> [exists |-> FALSE]]
    /\ copies = [c \in Collections |-> [k \in WarmupKeys |-> 0]]

-----------------------------------------------------------------------------
(* Initial states *)

Idle == [pc |-> "idle"]
NoResp == [route |-> "none"]

\* a license as createTrialLicense / upgradeLicense leave it, part of its
\* quota used, possibly deactivated
LicenseDocsOf(t, searches) ==
    { [isActive |-> a, expiresAt |-> e, licenseType |-> t,
       permissions |-> TierPermissions(t),
       totalUsage |-> [ZeroUsage EXCEPT !.connectionsUsed = c, !.messagesUsed = m,
                                        !.searchesPerformed = s]] :
        a \in BOOLEAN, e \in {1, MaxNow + 1},
        c \in {0, TierPermissions(t).maxDailyConnections - 1,
                  TierPermissions(t).maxDailyConnections},
        m \in {0, TierPermissions(t).maxDailyMessages},
        s \in searches }

FreshTrial ==
    [isActive |-> TRUE, expiresAt |-> MaxNow + 1, licenseType |-> "trial",
     permissions |-> TierPermissions("trial"), totalUsage |-> ZeroUsage]

NoBots ==
    /\ botRecs = [u \in Users |-> [exists |-> FALSE]]
    /\ activeBots = {}
    /\ botStatuses = [u \in Users |-> "none"]
    /\ statusRecs = [u \in Users |-> [exists |-> FALSE]]

InitWith(docs) ==
    /\ \E d \in docs : licenses = [u \in Users |-> IF u = "u1" THEN d ELSE FreshTrial]
    /\ now = 0
    /\ reqs = [p \in Procs |-> Idle]
    /\ resp = NoResp
    /\ base = [u \in Users |-> licenses[u].totalUsage]
    /\ incs = [u \in Users |-> ZeroUsage]
    /\ nreq = 0
    /\ cron = [j \in Jobs |-> JobIdle]
    /\ warmup = [k \in WarmupKeys |-> [exists |-> FALSE]]
    /\ NoLimits
    /\ NoBots

Init == InitWith(UNION { LicenseDocsOf(t, {0}) : t \in Tiers })

-----------------------------------------------------------------------------
(* License requests *)

\* the clock advances
Tick ==
    /\ now < MaxNow
    /\ now' = now + 1
    /\ UNCHANGED <<cron, warmup, limits, copies, licenses, reqs, resp, base, incs, nreq, botVars>>

\* a request that records usage: authMiddleware loads the document, the
\* handler (when checked) asks canPerformAction and then calls incrementUsage
\* on the loaded copy; the save is awaited
UsageLoad(p, u, a, checked) ==
    LET doc == licenses[u]
    IN  /\ reqs[p].pc = "idle"
        /\ nreq < MaxRequests
        /\ nreq' = nreq + 1
        /\ IF authMiddleware(doc) # "next" \/ (checked /\ ~canPerformAction(doc, a, now))
           THEN reqs' = reqs
           ELSE reqs' = [reqs EXCEPT ![p] =
                         [pc |-> "saving", user |-> u, action |-> a,
                          doc |-> incrementUsage(doc, a)]]
        /\ UNCHANGED <<cron, warmup, limits, copies, licenses, now, resp, base, incs, botVars>>

\* the save of incrementUsage reaches the store
UsageSave(p) ==
    LET r == reqs[p]
        path == UsagePath(r.action)
    IN  /\ r.pc = "saving"
        /\ licenses' = [licenses EXCEPT ![r.user] = save(@, r.doc, path)]
        /\ incs' = IF path = "none" THEN incs
                   ELSE [incs EXCEPT ![r.user][path] = @ + 1]
        /\ reqs' = [reqs EXCEPT ![p] = Idle]
        /\ UNCHANGED <<cron, warmup, limits, copies, now, resp, base, nreq, botVars>>

CheckedUsage == \E p \in Procs, u \in Users, a \in UsageActions : UsageLoad(p, u, a, TRUE)
UncheckedUsage == \E p \in Procs, u \in Users, a \in UsageActions : UsageLoad(p, u, a, FALSE)
SaveUsage == \E p \in Procs : UsageSave(p)

Next ==
    \/ Tick
    \/ CheckedUsage
    \/ UncheckedUsage
    \/ SaveUsage

Spec == Init /\ [][Next]_vars

\* only handlers that check before they record
NextGuarded ==
    \/ Tick
    \/ CheckedUsage
    \/ SaveUsage

SpecGuarded == Init /\ [][NextGuarded]_vars

-----------------------------------------------------------------------------
(* Requests behind the license middleware *)

\* a request to a route mounted behind authMiddleware and licenseMiddleware;
\* POST /check-permission answers canPerformAction(action) of req.user
GatedRequest(u, path, a) ==
    LET doc == licenses[u]
        gate == Gate(doc, path, now)
    IN  /\ (path = "/check-permission") = (a # "none")
        /\ resp' = [route |-> "gated", user |-> u, path |-> path, action |-> a,
                    at |-> now, result |-> gate,
                    canPerform |-> gate = "next" /\ canPerformAction(doc, a, now)]
        /\ UNCHANGED <<cron, warmup, limits, copies, licenses, now, reqs, base, incs, nreq, botVars>>

Gated == \E u \in Users, path \in Paths, a \in ActionTypes \cup {"none"} :
            GatedRequest(u, path, a)

InitGate == InitWith(UNION { LicenseDocsOf(t, {0, TierPermissions(t).maxSearchKeywords,
                                               DefaultMaxSearches}) : t \in Tiers })

NextGate ==
    \/ Tick
    \/ Gated

SpecGate == InitGate /\ [][NextGate]_vars

-----------------------------------------------------------------------------
(* BotStatus documents (userID, license, botStatus, isRunning); the      *)
(* lastActivity and timestamp fields are left out                          *)

\* this.create({ userID }): the schema defaults
DefaultBotRec ==
    [exists |-> TRUE, license |-> "trial", botStatus |-> "disable", isRunning |-> FALSE]

\* enableBot without isRunning in the update
enableBot_statusOnly(rec, license) ==
    [exists |-> TRUE, license |-> license, botStatus |-> "enable",
     isRunning |-> IF rec.exists THEN rec.isRunning ELSE FALSE]

\* findOneAndUpdate({userID}, {botStatus, license, isRunning}, {upsert})
enableBot(rec, license) ==
    [exists |-> TRUE, license |-> license, botStatus |-> "enable", isRunning |-> TRUE]

disableBot_keepRunning(rec) ==
    [exists |-> TRUE, license |-> IF rec.exists THEN rec.license ELSE "trial",
     botStatus |-> "disable", isRunning |-> IF rec.exists THEN rec.isRunning ELSE FALSE]

\* findOneAndUpdate({userID}, {botStatus, isRunning}, {upsert})
disableBot(rec) ==
    [exists |-> TRUE, license |-> IF rec.exists THEN rec.license ELSE "trial",
     botStatus |-> "disable", isRunning |-> FALSE]

IsRunningRec(rec) == rec.exists /\ rec.botStatus = "enable" /\ rec.isRunning
IsStoppedRec(rec) == rec.exists /\ rec.botStatus = "disable" /\ ~rec.isRunning

-----------------------------------------------------------------------------
(* BotService behind /api/bot *)

BotRoutes == {"start", "stop", "emergency-stop"}

\* req.body.license of POST /start ("none": not given)
LicenseInputs == {"none", "premium"}

BotPath(route) ==
    CASE route = "start" -> "/start"
      [] route = "stop" -> "/stop"
      [] OTHER -> "/emergency-stop"

StartConflict_never(rec) == FALSE

\* currentStatus.botStatus === "enable" && currentStatus.isRunning
StartConflict(rec) == rec.botStatus = "enable" /\ rec.isRunning

\* currentStatus.botStatus === "disable" && !currentStatus.isRunning
StopConflict(rec) == rec.botStatus = "disable" /\ ~rec.isRunning

Respond(route, u, result) == [route |-> route, user |-> u, result |-> result]

\* the handler ends with an error thrown inside the service: the catch of
\* startBot drops the user from activeBots and marks it "error", the catch
\* of stopBot only rethrows; the route answers 400
Throw(p, message) ==
    LET r == reqs[p]
    IN  /\ resp' = Respond(r.route, r.user, message)
        /\ reqs' = [reqs EXCEPT ![p] = Idle]
        /\ IF r.route = "start"
           THEN /\ activeBots' = activeBots \ {r.user}
                /\ botStatuses' = [botStatuses EXCEPT ![r.user] = "error"]
           ELSE UNCHANGED <<activeBots, botStatuses>>

\* the code of startBot / stopBot after getBotStatus has returned rec
AfterGetBotStatus(p, rec) ==
    LET r == reqs[p]
    IN  IF r.route = "start"
        THEN IF StartConflict(rec)
             THEN Throw(p, "400 Bot is already running for this user")
             ELSE /\ reqs' = [reqs EXCEPT ![p] =
                           [r EXCEPT !.pc = "write",
                                     !.license = IF @ # "none" THEN @ ELSE rec.license]]
                  /\ UNCHANGED <<resp, activeBots, botStatuses>>
        ELSE IF StopConflict(rec)
             THEN Throw(p, "400 No bot running for this user")
             ELSE /\ reqs' = [reqs EXCEPT ![p].pc = "write"]
                  /\ UNCHANGED <<resp, activeBots, botStatuses>>

\* authMiddleware, licenseMiddleware and the permission check of the route
\* (POST /emergency-stop has none), up to the first await of the service
BotGate(p, u, route, lic) ==
    LET doc == licenses[u]
        gate == Gate(doc, BotPath(route), now)
    IN  /\ reqs[p].pc = "idle"
        /\ nreq < MaxRequests
        /\ nreq' = nreq + 1
        /\ (route # "start") => (lic = "none")
        /\ IF gate # "next"
           THEN /\ resp' = Respond(route, u, gate)
                /\ reqs' = reqs
           ELSE IF route # "emergency-stop" /\ ~canPerformAction(doc, "bot_control", now)
           THEN /\ resp' = Respond(route, u, "403 Permission denied")
                /\ reqs' = reqs
           ELSE /\ reqs' = [reqs EXCEPT ![p] =
                         [pc |-> "find", user |-> u, route |-> route, license |-> lic]]
                /\ resp' = resp
        /\ UNCHANGED <<cron, warmup, limits, copies, licenses, now, base, incs, botVars>>

\* BotStatus.getBotStatus: findOne
BotFind(p) ==
    LET r == reqs[p]
    IN  /\ r.pc = "find"
        /\ IF ~botRecs[r.user].exists
           THEN /\ reqs' = [reqs EXCEPT ![p].pc = "create"]
                /\ UNCHANGED <<resp, activeBots, botStatuses>>
           ELSE AfterGetBotStatus(p, botRecs[r.user])
        /\ UNCHANGED <<cron, warmup, limits, copies, licenses, now, base, incs, nreq, botRecs, statusRecs>>

\* BotStatus.getBotStatus: create({ userID }); userID is unique
BotCreate(p) ==
    LET r == reqs[p]
    IN  /\ r.pc = "create"
        /\ IF botRecs[r.user].exists
           THEN /\ Throw(p, "400 E11000 duplicate key")
                /\ botRecs' = botRecs
           ELSE /\ botRecs' = [botRecs EXCEPT ![r.user] = DefaultBotRec]
                /\ AfterGetBotStatus(p, DefaultBotRec)
        /\ UNCHANGED <<cron, warmup, limits, copies, licenses, now, base, incs, nreq, statusRecs>>

\* BotStatus.enableBot / disableBot and the rest of startBot / stopBot
BotWrite(p) ==
    LET r == reqs[p]
    IN  /\ r.pc = "write"
        /\ IF r.route = "start"
           THEN /\ botRecs' = [botRecs EXCEPT ![r.user] = enableBot(@, r.license)]
                /\ activeBots' = activeBots \cup {r.user}
                /\ botStatuses' = [botStatuses EXCEPT ![r.user] = "running"]
           ELSE /\ botRecs' = [botRecs EXCEPT ![r.user] = disableBot(@)]
                /\ activeBots' = activeBots \ {r.user}
                /\ botStatuses' = [botStatuses EXCEPT ![r.user] = "stopped"]
        /\ resp' = Respond(r.route, r.user, "200")
        /\ reqs' = [reqs EXCEPT ![p] = Idle]
        /\ UNCHANGED <<cron, warmup, limits, copies, licenses, now, base, incs, nreq, statusRecs>>

\* LicenseService.deactivateExpiredLicenses
DeactivateExpired ==
    /\ \E u \in Users : licenses[u].isActive /\ licenses[u].expiresAt < now
    /\ licenses' = [u \in Users |->
                      IF licenses[u].isActive /\ licenses[u].expiresAt < now
                      THEN [licenses[u] EXCEPT !.isActive = FALSE]
                      ELSE licenses[u]]
    /\ UNCHANGED <<cron, warmup, limits, copies, now, reqs, resp, base, incs, nreq, botVars>>

BotRequest == \E p \in Procs, u \in Users, route \in BotRoutes, lic \in LicenseInputs :
                 BotGate(p, u, route, lic)
FindBot == \E p \in Procs : BotFind(p)
CreateBot == \E p \in Procs : BotCreate(p)
WriteBot == \E p \in Procs : BotWrite(p)

-----------------------------------------------------------------------------
(* BotStatusService behind /api/bot-status; its collection holds           *)
(* (userId, isActive, status, ...) documents                                *)

StatusRoutes == {"status-start", "status-stop", "status-pause", "status-resume"}

\* the fields an upsert leaves to the schema
StatusDefaults == [exists |-> TRUE, isActive |-> FALSE, status |-> "idle"]

\* BotStatus.setActive(userId)
setActive(rec) == [exists |-> TRUE, isActive |-> TRUE, status |-> "running"]

\* BotStatus.setInactive(userId, errorMessage)
setInactive(rec) == [exists |-> TRUE, isActive |-> FALSE, status |-> "stopped"]

\* findOneAndUpdate({userId}, {status: "paused"}, {upsert: true, new: true})
pauseBot(rec) ==
    [(IF rec.exists THEN rec ELSE StatusDefaults) EXCEPT !.status = "paused"]

\* findOneAndUpdate({userId}, {status: "running"}, {upsert: true, new: true})
resumeBot(rec) ==
    [(IF rec.exists THEN rec ELSE StatusDefaults) EXCEPT !.status = "running"]

StatusOp(route, rec) ==
    CASE route = "status-start" -> setActive(rec)
      [] route = "status-stop" -> setInactive(rec)
      [] route = "status-pause" -> pauseBot(rec)
      [] OTHER -> resumeBot(rec)

\* this.io.to(`user-${userId}`).emit("bot-status-update", status): the room
\* and the isActive and status fields of the snapshot
emitStatusUpdate(u, rec) == [room |-> u, isActive |-> rec.isActive, status |-> rec.status]

NoEmit == [room |-> "none"]

\* what a service call emits after its storage operation has returned rec:
\* startBot and stopBot call emitStatusUpdate, pauseBot and resumeBot do not
StatusEmit(route, u, rec) ==
    IF route \in {"status-start", "status-stop"} THEN emitStatusUpdate(u, rec) ELSE NoEmit

\* authMiddleware and the :userId check of the route, up to the await of the
\* service call; requested is req.params.userId ("none": not given)
StatusGate(p, u, route, requested) ==
    LET doc == licenses[u]
    IN  /\ reqs[p].pc = "idle"
        /\ nreq < MaxRequests
        /\ nreq' = nreq + 1
        /\ IF authMiddleware(doc) # "next"
           THEN /\ resp' = Respond(route, u, authMiddleware(doc))
                /\ reqs' = reqs
           ELSE IF requested # "none" /\ requested # u
           THEN /\ resp' = Respond(route, u, "403 Access denied")
                /\ reqs' = reqs
           ELSE /\ reqs' = [reqs EXCEPT ![p] =
                         [pc |-> "op", user |-> u, route |-> route, license |-> "none"]]
                /\ resp' = resp
        /\ UNCHANGED <<cron, warmup, limits, copies, licenses, now, base, incs, botVars>>

\* the storage operation of the service call, the socket event the service
\* emits and the answer of the route
StatusWrite(p) ==
    LET r == reqs[p]
    IN  /\ r.pc = "op"
        /\ statusRecs' = [statusRecs EXCEPT ![r.user] = StatusOp(r.route, @)]
        /\ resp' = [route |-> r.route, user |-> r.user, result |-> "200",
                    emitted |-> StatusEmit(r.route, r.user,
                                           StatusOp(r.route, statusRecs[r.user]))]
        /\ reqs' = [reqs EXCEPT ![p] = Idle]
        /\ UNCHANGED <<cron, warmup, limits, copies, licenses, now, base, incs, nreq, botRecs, activeBots, botStatuses>>

StatusRequest == \E p \in Procs, u \in Users, route \in StatusRoutes,
                    requested \in Users \cup {"none"} : StatusGate(p, u, route, requested)
WriteStatus == \E p \in Procs : StatusWrite(p)

BotDocs ==
    { [FreshTrial EXCEPT !.isActive = a, !.expiresAt = e] :
        a \in BOOLEAN, e \in {1, MaxNow + 1} }

InitBot == InitWith(BotDocs)

NextBot ==
    \/ Tick
    \/ DeactivateExpired
    \/ BotRequest
    \/ FindBot
    \/ CreateBot
    \/ WriteBot
    \/ StatusRequest
    \/ WriteStatus

SpecBot == InitBot /\ [][NextBot]_vars

-----------------------------------------------------------------------------
(* Claims about the license engine *)

QuotaActions == {"connection", "message", "search"}

QuotaUsed(doc, a) == doc.totalUsage[UsagePath(a)]

\* the caps an action can be held against: the permission set has one for
\* connections and one for messages; for searches it has only the keyword
\* cap, and the Daily Limits record has maxSearches
QuotaCaps(doc, a) ==
    CASE a = "connection" -> {doc.permissions.maxDailyConnections}
      [] a = "message" -> {doc.permissions.maxDailyMessages}
      [] OTHER -> {doc.permissions.maxSearchKeywords, DefaultMaxSearches}

RespDoc == licenses[resp.user]

\* C1: once the used count of a quota action (connection, message, search)
\* has reached its cap, canPerformAction for that action returns false.
C1_QuotaDeniedAtCap ==
    (resp.route = "gated" /\ resp.path = "/check-permission" /\ resp.result = "next"
        /\ resp.action \in QuotaActions)
    => ((\A cap \in QuotaCaps(RespDoc, resp.action) :
             QuotaUsed(RespDoc, resp.action) >= cap)
        => ~resp.canPerform)

\* C2: a principal with isActive = false or expiresAt <= now is never
\* authorized: the license middleware rejects its request and
\* canPerformAction is false, the boundary expiresAt = now included.
C2_InvalidNeverAuthorized ==
    resp.route = "gated"
    => ((~RespDoc.isActive \/ RespDoc.expiresAt <= resp.at)
        => (resp.result # "next" /\ ~resp.canPerform))

\* C3: an active principal whose expiresAt lies in the past is denied by the
\* license middleware with the expired-license reason on every path, whatever
\* its usage and permissions: the license check comes first.
C3_ExpiredReasonFirst ==
    resp.route = "gated"
    => ((RespDoc.isActive /\ RespDoc.expiresAt < resp.at)
        => resp.result = "403 License has expired")

C3_Witness ==
    /\ resp.route = "gated"
    /\ RespDoc.isActive /\ RespDoc.expiresAt < resp.at
    /\ resp.result = "403 License has expired"
    /\ PathIncludesBot(resp.path)
    /\ RespDoc.totalUsage.connectionsUsed >= RespDoc.permissions.maxDailyConnections
    /\ ~RespDoc.permissions.canExportData

NoneInFlight == \A p \in Procs : reqs[p].pc = "idle"

\* C5: after two incrementUsage('connection') calls of one principal have
\* completed, in whatever interleaving, the stored connectionsUsed is the
\* initial value plus 2.
C5_TwoIncrementsBothCounted ==
    \A u \in Users :
        (incs[u].connectionsUsed = 2 /\ NoneInFlight)
        => licenses[u].totalUsage.connectionsUsed = base[u].connectionsUsed + 2

\* C6: when every request checks canPerformAction before it calls
\* incrementUsage, the stored connectionsUsed never exceeds
\* maxDailyConnections and the stored messagesUsed never exceeds
\* maxDailyMessages, under every interleaving.
C6_StoredWithinCap ==
    \A u \in Users :
        /\ licenses[u].totalUsage.connectionsUsed <= licenses[u].permissions.maxDailyConnections
        /\ licenses[u].totalUsage.messagesUsed <= licenses[u].permissions.maxDailyMessages

\* two allowed requests that both loaded the document one below the cap
C6_Witness ==
    \E u \in Users :
        /\ incs[u].connectionsUsed = 2
        /\ base[u].connectionsUsed = licenses[u].permissions.maxDailyConnections - 1
        /\ licenses[u].totalUsage.connectionsUsed = licenses[u].permissions.maxDailyConnections

-----------------------------------------------------------------------------
(* Claims about the bot control signal *)

StatusRunning(rec) == rec.exists /\ rec.status = "running"

\* the handler p takes a step
Steps(p) == reqs'[p] # reqs[p]

\* C4: no request moves a principal's bot to the running state (in either
\* store) unless the principal's license is active and unexpired at that
\* moment.
C4_RunningOnlyWithValidLicense ==
    [][\A u \in Users :
         ((IsRunningRec(botRecs'[u]) /\ ~IsRunningRec(botRecs[u]))
            \/ (StatusRunning(statusRecs'[u]) /\ ~StatusRunning(statusRecs[u])))
         => isLicenseValid(licenses[u], now)]_vars

\* C7: an emergency stop for a principal whose bot is running (the record
\* is running when the request is answered, and the handler has not found
\* the record missing) succeeds and leaves the bot stopped, whatever the
\* license state and the usage counters.
C7_EmergencyStopAlwaysStops ==
    [][(resp' # resp /\ resp'.route = "emergency-stop"
          /\ IsRunningRec(botRecs[resp'.user])
          /\ ~\E p \in Procs : Steps(p) /\ reqs[p].pc = "create")
       => (resp'.result = "200" /\ IsStoppedRec(botRecs'[resp'.user]))]_vars

\* C8: startBot that finds the bot running fails with the already-running
\* error and leaves the bot record as it is; startBot that finds it stopped
\* goes on, and ends with botStatus "enable" and isRunning true.
C8_StartBot ==
    [][\A p \in Procs :
         (Steps(p) /\ reqs[p].pc \in {"find", "write"} /\ reqs[p].route = "start")
         => LET u == reqs[p].user
            IN  /\ (reqs[p].pc = "find" /\ IsRunningRec(botRecs[u]))
                    => /\ reqs'[p] = Idle
                       /\ resp' = Respond("start", u, "400 Bot is already running for this user")
                       /\ botRecs' = botRecs
                /\ (reqs[p].pc = "find" /\ IsStoppedRec(botRecs[u]))
                    => (reqs'[p].pc = "write" /\ botRecs' = botRecs)
                /\ reqs[p].pc = "write"
                    => /\ IsRunningRec(botRecs'[u])
                       /\ resp' = Respond("start", u, "200")]_vars

C8_Witness ==
    /\ resp.route = "start"
    /\ resp.result = "400 Bot is already running for this user"
    /\ IsRunningRec(botRecs[resp.user])

\* C9: stopBot that finds the bot stopped reports the not-running error and
\* changes no state; in every other case in which getBotStatus returns a
\* record it ends with botStatus "disable" and isRunning false.
C9_StopBot ==
    [][\A p \in Procs :
         (Steps(p) /\ reqs[p].pc \in {"find", "create", "write"}
            /\ reqs[p].route \in {"stop", "emergency-stop"})
         => LET u == reqs[p].user
            IN  /\ (reqs[p].pc = "find" /\ IsStoppedRec(botRecs[u]))
                    => /\ reqs'[p] = Idle
                       /\ resp' = Respond(reqs[p].route, u, "400 No bot running for this user")
                       /\ UNCHANGED <<licenses, botRecs, activeBots, botStatuses, statusRecs>>
                /\ (reqs[p].pc = "find" /\ IsRunningRec(botRecs[u]))
                    => (reqs'[p].pc = "write" /\ botRecs' = botRecs)
                /\ (reqs[p].pc = "create" /\ ~botRecs[u].exists)
                    => /\ IsStoppedRec(botRecs'[u])
                       /\ resp' = Respond(reqs[p].route, u, "400 No bot running for this user")
                /\ reqs[p].pc = "write"
                    => /\ IsStoppedRec(botRecs'[u])
                       /\ resp' = Respond(reqs[p].route, u, "200")]_vars

C9_Witness ==
    /\ resp.route = "stop"
    /\ resp.result = "400 No bot running for this user"
    /\ IsStoppedRec(botRecs[resp.user])

\* C10: pauseBot changes the status to paused only when the bot is running
\* and resumeBot changes it to running only when it is paused; in any other
\* state each leaves the stored status record unchanged.
C10_PauseResumeGuarded ==
    [][\A p \in Procs :
         (Steps(p) /\ reqs[p].pc = "op")
         => LET u == reqs[p].user
            IN  /\ reqs[p].route = "status-pause"
                    => IF StatusRunning(statusRecs[u])
                       THEN statusRecs'[u].status = "paused"
                       ELSE statusRecs' = statusRecs
                /\ reqs[p].route = "status-resume"
                    => IF statusRecs[u].exists /\ statusRecs[u].status = "paused"
                       THEN statusRecs'[u].status = "running"
                       ELSE statusRecs' = statusRecs]_vars

-----------------------------------------------------------------------------
(* Two concurrent start calls of one principal *)

\* u1 has a stopped bot record, u2 has none yet
InitStart ==
    /\ \E d \in BotDocs : licenses = [u \in Users |-> IF u = "u1" THEN d ELSE FreshTrial]
    /\ now = 0
    /\ reqs = [p \in Procs |-> Idle]
    /\ resp = NoResp
    /\ base = [u \in Users |-> licenses[u].totalUsage]
    /\ incs = [u \in Users |-> ZeroUsage]
    /\ nreq = 0
    /\ cron = [j \in Jobs |-> JobIdle]
    /\ warmup = [k \in WarmupKeys |-> [exists |-> FALSE]]
    /\ NoLimits
    /\ botRecs = [u \in Users |-> IF u = "u1" THEN DefaultBotRec ELSE [exists |-> FALSE]]
    /\ activeBots = {}
    /\ botStatuses = [u \in Users |-> "none"]
    /\ statusRecs = [u \in Users |-> [exists |-> FALSE]]

\* two POST /api/bot/start requests of one principal arrive together: each
\* passes the middleware and the permission check and runs startBot up to
\* its first await (getBotStatus) before either goes on
ConcurrentStart(u, lic1, lic2) ==
    LET doc == licenses[u]
        gate == Gate(doc, BotPath("start"), now)
    IN  /\ \A p \in Procs : reqs[p].pc = "idle"
        /\ nreq + 2 <= MaxRequests
        /\ nreq' = nreq + 2
        /\ IF gate # "next"
           THEN /\ resp' = Respond("start", u, gate)
                /\ reqs' = reqs
           ELSE IF ~canPerformAction(doc, "bot_control", now)
           THEN /\ resp' = Respond("start", u, "403 Permission denied")
                /\ reqs' = reqs
           ELSE /\ reqs' = [p \in Procs |->
                             [pc |-> "find", user |-> u, route |-> "start",
                              license |-> IF p = "r1" THEN lic1 ELSE lic2]]
                /\ resp' = resp
        /\ UNCHANGED <<cron, warmup, limits, copies, licenses, now, base, incs, botVars>>

StartTwice == \E u \in Users, lic1 \in LicenseInputs, lic2 \in LicenseInputs :
                 ConcurrentStart(u, lic1, lic2)

NextStart ==
    \/ Tick
    \/ StartTwice
    \/ FindBot
    \/ CreateBot
    \/ WriteBot

SpecStart == InitStart /\ [][NextStart]_vars

\* C11: when two startBot calls of one principal run concurrently, each call
\* that has got the bot record ends without an error and with the bot
\* running (botStatus "enable", isRunning true), in every interleaving.
C11_ConcurrentStartsBothSucceed ==
    [][\A p \in Procs :
         (Steps(p) /\ reqs[p].pc \in {"find", "write"} /\ reqs[p].route = "start"
            /\ reqs'[p] = Idle)
         => (resp' = Respond("start", reqs[p].user, "200")
             /\ IsRunningRec(botRecs'[reqs[p].user]))]_vars

-----------------------------------------------------------------------------
(* Claims about the status snapshots *)

\* C12: every BotStatusService call (startBot, stopBot, pauseBot, resumeBot)
\* emits a bot-status-update snapshot to the room of the principal, and the
\* snapshot carries the state stored after the transition.
C12_TransitionEmitsSnapshot ==
    [][\A p \in Procs :
         (Steps(p) /\ reqs[p].pc = "op")
         => resp'.emitted = emitStatusUpdate(reqs[p].user, statusRecs'[reqs[p].user])]_vars

-----------------------------------------------------------------------------
(* Daily maintenance and the usage reset route *)

DailyPaths == {"connectionsUsed", "messagesUsed", "searchesPerformed"}

ZeroDaily(usage) ==
    [usage EXCEPT !.connectionsUsed = 0, !.messagesUsed = 0, !.searchesPerformed = 0]

resetDailyUsage_allCounters(lics) ==
    [u \in Users |-> [lics[u] EXCEPT !.totalUsage = ZeroUsage]]

\* UserLicense.updateMany({}, {$set: the three daily counters to 0})
resetDailyUsage(lics) ==
    [u \in Users |-> [lics[u] EXCEPT !.totalUsage = ZeroDaily(@)]]

deactivateExpiredLicenses_inactiveOnly(lics, t) ==
    [u \in Users |-> IF ~lics[u].isActive /\ lics[u].expiresAt < t
                     THEN [lics[u] EXCEPT !.isActive = FALSE]
                     ELSE lics[u]]

\* UserLicense.updateMany({expiresAt: {$lt: new Date()}, isActive: true},
\*                        {isActive: false})
deactivateExpiredLicenses(lics, t) ==
    [u \in Users |-> IF lics[u].isActive /\ lics[u].expiresAt < t
                     THEN [lics[u] EXCEPT !.isActive = FALSE]
                     ELSE lics[u]]

JobAfterFailure_retry(job) ==
    [job EXCEPT !.pc = "reset", !.last = "failed"]

\* the catch of the cron callback: the error is logged and the callback ends
JobAfterFailure(job) ==
    [job EXCEPT !.pc = "idle", !.last = "failed"]

JobAfterSuccess(job) ==
    [job EXCEPT !.pc = "idle", !.last = "completed"]

\* cron.schedule("0 0 * * *", ...): the callback fires once a day and calls
\* resetDailyUsage, which it awaits
Fire(j) ==
    /\ cron[j].pc = "idle"
    /\ cron[j].lastFired < now
    /\ cron' = [cron EXCEPT ![j] = [@ EXCEPT !.pc = "reset", !.lastFired = now,
                                             !.runAt = now]]
    /\ UNCHANGED <<warmup, limits, copies, licenses, now, reqs, resp, base, incs, nreq, botVars>>

\* the updateMany of resetDailyUsage returns or throws. In the callback of
\* LicenseService deactivateExpiredLicenses is called next; in the callback
\* of server.js the next statement calls botService.cleanupExpiredSessions,
\* which is no method of BotService, so the run ends in the catch
JobReset(j, fails) ==
    /\ cron[j].pc = "reset"
    /\ IF fails
       THEN /\ cron' = [cron EXCEPT ![j] = JobAfterFailure(@)]
            /\ UNCHANGED <<licenses, base, incs>>
       ELSE /\ licenses' = resetDailyUsage(licenses)
            /\ base' = [u \in Users |-> ZeroDaily(base[u])]
            /\ incs' = [u \in Users |-> ZeroDaily(incs[u])]
            /\ cron' = [cron EXCEPT ![j] = IF j = "license"
                                           THEN [@ EXCEPT !.pc = "deactivate"]
                                           ELSE JobAfterFailure(@)]
    /\ UNCHANGED <<warmup, limits, copies, now, reqs, resp, nreq, botVars>>

\* the updateMany of deactivateExpiredLicenses returns or throws
JobDeactivate(j, fails) ==
    /\ cron[j].pc = "deactivate"
    /\ IF fails
       THEN /\ cron' = [cron EXCEPT ![j] = JobAfterFailure(@)]
            /\ licenses' = licenses
       ELSE /\ licenses' = deactivateExpiredLicenses(licenses, now)
            /\ cron' = [cron EXCEPT ![j] = JobAfterSuccess(@)]
    /\ UNCHANGED <<warmup, limits, copies, now, reqs, resp, base, incs, nreq, botVars>>

\* POST /api/license/reset-usage: the middleware, the tier check and the
\* assignment of the zeroed totalUsage to the loaded copy, up to the save
ResetLoad(p, u) ==
    LET doc == licenses[u]
        gate == Gate(doc, "/reset-usage", now)
    IN  /\ reqs[p].pc = "idle"
        /\ nreq < MaxRequests
        /\ nreq' = nreq + 1
        /\ IF gate # "next"
           THEN /\ resp' = Respond("reset-usage", u, gate)
                /\ reqs' = reqs
           ELSE IF doc.licenseType \notin {"premium", "enterprise"}
           THEN /\ resp' = Respond("reset-usage", u, "403 Usage reset requires premium or enterprise license")
                /\ reqs' = reqs
           ELSE /\ reqs' = [reqs EXCEPT ![p] =
                         [pc |-> "resetting", user |-> u,
                          doc |-> [doc EXCEPT !.totalUsage = ZeroDaily(@)]]]
                /\ resp' = resp
        /\ UNCHANGED <<cron, warmup, limits, copies, licenses, now, base, incs, botVars>>

\* user.save(): the assigned totalUsage object is written whole
ResetSave(p) ==
    LET r == reqs[p]
    IN  /\ r.pc = "resetting"
        /\ licenses' = [licenses EXCEPT ![r.user].totalUsage = r.doc.totalUsage]
        /\ base' = [base EXCEPT ![r.user] = r.doc.totalUsage]
        /\ incs' = [incs EXCEPT ![r.user] = ZeroUsage]
        /\ resp' = Respond("reset-usage", r.user, "200")
        /\ reqs' = [reqs EXCEPT ![p] = Idle]
        /\ UNCHANGED <<cron, warmup, limits, copies, now, nreq, botVars>>

FireJob == \E j \in Jobs : Fire(j)
ResetJob == \E j \in Jobs, fails \in BOOLEAN : JobReset(j, fails)
DeactivateJob == \E j \in Jobs, fails \in BOOLEAN : JobDeactivate(j, fails)
ResetRequest == \E p \in Procs : ResetLoad(p, "u1")
SaveReset == \E p \in Procs : ResetSave(p)

\* requests of u1 that record a connection or a session while the callbacks run
MaintUsage == \E p \in Procs, a \in {"connection", "session"} : UsageLoad(p, "u1", a, FALSE)

\* u1 has used part of its quota
MaintDocs ==
    { [isActive |-> TRUE, expiresAt |-> e, licenseType |-> t,
       permissions |-> TierPermissions(t),
       totalUsage |-> [ZeroUsage EXCEPT !.connectionsUsed = c]] :
        t \in {"trial", "premium"}, e \in {1, MaxNow + 1},
        c \in {TierPermissions("trial").maxDailyConnections} }

InitMaint == InitWith({d \in MaintDocs : d.licenseType = "trial"})

InitBetween == InitWith(MaintDocs)

NextMaint ==
    \/ Tick
    \/ FireJob
    \/ ResetJob
    \/ DeactivateJob
    \/ MaintUsage
    \/ SaveUsage

SpecMaint == InitMaint /\ [][NextMaint]_vars

\* the requests of a principal between two firings of the callbacks
NextBetween ==
    \/ Tick
    \/ MaintUsage
    \/ SaveUsage
    \/ ResetRequest
    \/ SaveReset

SpecBetween == InitBetween /\ [][NextBetween]_vars

\* the step is the return of a storage operation of callback j
JobReturns(j, pc) == cron[j].pc = pc /\ cron'[j].pc # pc

C14_FailedRunNotRetried ==
    [][\A j \in Jobs :
         /\ (cron[j].pc # "idle" /\ cron'[j] # cron[j])
            => \/ /\ cron'[j].pc = "idle"
                  /\ cron'[j].last \in {"failed", "completed"}
                  /\ cron'[j].lastFired = cron[j].lastFired
               \/ /\ j = "license"
                  /\ cron[j].pc = "reset"
                  /\ cron'[j].pc = "deactivate"
         /\ (cron[j].pc = "idle" /\ cron'[j] # cron[j])
            => (cron'[j].pc = "reset" /\ cron'[j].lastFired > cron[j].lastFired)]_vars

\* the run after a failed run has reset the counters and reached the deactivation
C14_Witness ==
    /\ cron["license"].last = "failed"
    /\ cron["license"].pc = "deactivate"

AllDailyZero(lics) ==
    \A u \in Users : \A path \in DailyPaths : lics[u].totalUsage[path] = 0

\* C15: a run of resetDailyUsage leaves every daily counter 0 and changes
\* neither totalSessions nor any other field of a principal; run on counters
\* that are already 0 (a second run in succession) it changes nothing, and
\* running it on its own result gives that result.
C15_ResetIdempotent ==
    [][\A j \in Jobs :
         (JobReturns(j, "reset") /\ licenses' # licenses)
         => /\ AllDailyZero(licenses')
            /\ \A u \in Users :
                  /\ licenses'[u].totalUsage.totalSessions = licenses[u].totalUsage.totalSessions
                  /\ licenses'[u].isActive = licenses[u].isActive
                  /\ licenses'[u].expiresAt = licenses[u].expiresAt
                  /\ licenses'[u].licenseType = licenses[u].licenseType
                  /\ licenses'[u].permissions = licenses[u].permissions
            /\ ~AllDailyZero(licenses)
            /\ resetDailyUsage(licenses') = licenses'
            /\ resetDailyUsage(resetDailyUsage(licenses)) = resetDailyUsage(licenses)]_vars

\* both callbacks have run their reset in the same cycle, after a session
\* was counted
C15_Witness ==
    /\ cron["license"].pc = "deactivate"
    /\ cron["server"].pc = "idle"
    /\ cron["server"].last = "failed"
    /\ cron["server"].lastFired = cron["license"].lastFired
    /\ licenses["u1"].totalUsage.totalSessions >= 1
    /\ AllDailyZero(licenses)

\* C16: no step other than the reset of a scheduled callback lowers a daily
\* usage counter of a principal: no request a principal makes decreases its
\* connectionsUsed, messagesUsed or searchesPerformed.
C16_DailyCountersOnlyGrow ==
    [][(\A j \in Jobs : ~JobReturns(j, "reset"))
       => \A u \in Users : \A path \in DailyPaths :
            licenses'[u].totalUsage[path] >= licenses[u].totalUsage[path]]_vars

-----------------------------------------------------------------------------
(* LicenseService: the permission catalog and createLicense *)

\* names every object literal inherits from Object.prototype
InheritedKeys == {"constructor", "toString", "__proto__"}

\* tier strings a caller can pass: the four tiers, unknown names, and names
\* of inherited properties
TierStrings == Tiers \cup {"gold", "TRIAL", ""} \cup InheritedKeys

\* the literal of getLicensePermissions, by own key
CatalogEntry(t) ==
    CASE t = "trial" ->
           [maxDailyConnections |-> 5, maxDailyMessages |-> 3,
            maxSearchKeywords |-> 3, canUseAdvancedFeatures |-> FALSE,
            canExportData |-> FALSE, canUseAPI |-> FALSE]
      [] t = "basic" ->
           [maxDailyConnections |-> 15, maxDailyMessages |-> 10,
            maxSearchKeywords |-> 10, canUseAdvancedFeatures |-> TRUE,
            canExportData |-> TRUE, canUseAPI |-> FALSE]
      [] t = "premium" ->
           [maxDailyConnections |-> 50, maxDailyMessages |-> 25,
            maxSearchKeywords |-> 25, canUseAdvancedFeatures |-> TRUE,
            canExportData |-> TRUE, canUseAPI |-> TRUE]
      [] t = "enterprise" ->
           [maxDailyConnections |-> 100, maxDailyMessages |-> 50,
            maxSearchKeywords |-> 50, canUseAdvancedFeatures |-> TRUE,
            canExportData |-> TRUE, canUseAPI |-> TRUE]

\* permissions[licenseType] || permissions.trial: the lookup finds own keys
\* and, through the prototype chain, inherited ones (a function or object,
\* which is truthy); only an undefined result falls back to the trial entry
getLicensePermissions(t) ==
    IF t \in Tiers THEN CatalogEntry(t)
    ELSE IF t \in InheritedKeys THEN [inherited |-> t]
    ELSE CatalogEntry("trial")

\* durations[licenseType] || 30, in days (inherited keys give no number)
getLicenseDuration(t) ==
    IF t \in {"basic", "premium", "enterprise"} THEN 365 ELSE 30

\* createLicense(userData, licenseType): a trial goes to createTrialLicense,
\* any other tier to UserLicense.create with the permissions of the catalog;
\* the schema accepts only the four tiers as licenseType
CreateLicense(u, t) ==
    LET perms == IF t = "trial" THEN TierPermissions("trial") ELSE getLicensePermissions(t)
    IN  /\ IF t \in Tiers
           THEN /\ licenses' = [licenses EXCEPT ![u] =
                       [isActive |-> TRUE, expiresAt |-> now + getLicenseDuration(t),
                        licenseType |-> t, permissions |-> perms,
                        totalUsage |-> ZeroUsage]]
                /\ base' = [base EXCEPT ![u] = ZeroUsage]
                /\ incs' = [incs EXCEPT ![u] = ZeroUsage]
           ELSE UNCHANGED <<licenses, base, incs>>
        /\ resp' = [route |-> "createLicense", user |-> u, tier |-> t,
                    permissions |-> perms,
                    result |-> IF t \in Tiers THEN "created" ELSE "ValidationError"]
        /\ UNCHANGED <<cron, warmup, limits, copies, now, reqs, nreq, botVars>>

NewLicense == \E u \in Users, t \in TierStrings : CreateLicense(u, t)

InitCatalog == InitWith({FreshTrial})

NextCatalog ==
    \/ Tick
    \/ NewLicense

SpecCatalog == InitCatalog /\ [][NextCatalog]_vars

\* C17: for every tier string outside trial, basic, premium and enterprise,
\* getLicensePermissions returns exactly the trial entry: 5 connections,
\* 3 messages, 3 keywords and every feature flag false.
C17_UnknownTierIsTrial ==
    (resp.route = "createLicense" /\ resp.tier \notin Tiers)
    => resp.permissions =
         [maxDailyConnections |-> 5, maxDailyMessages |-> 3,
          maxSearchKeywords |-> 3, canUseAdvancedFeatures |-> FALSE,
          canExportData |-> FALSE, canUseAPI |-> FALSE]

-----------------------------------------------------------------------------
(* WarmupSettings: the model (schema, getCurrentWeek, getCurrentLimits,  *)
(* shouldRespectWarmup) and the /warmup routes of both settings routers  *)

\* Instants are counted in units of 1/DayUnits of a day: the day `now` begins
\* at instant now * DayUnits, the code's 1000 * 60 * 60 * 24 ms are DayUnits.
DayUnits == 2

Today(t) == t * DayUnits

WarmupPhases == {"auto", "week1", "week2", "week3", "week4plus"}

\* customLimits of the schema, with its defaults
DefaultLimits ==
    [week1     |-> [daily |-> 2, weekly |-> 10],
     week2     |-> [daily |-> 3, weekly |-> 15],
     week3     |-> [daily |-> 4, weekly |-> 20],
     week4plus |-> [daily |-> 5, weekly |-> 25]]

\* new WarmupSettings({}) at day t: every path takes its schema default
SchemaDefaults(t) ==
    [exists |-> TRUE, enabled |-> TRUE, overrideWarmup |-> TRUE, phase |-> "auto",
     customLimits |-> DefaultLimits, accountStartDate |-> Today(t),
     totalConnections |-> 0]

Abs(x) == IF x < 0 THEN -x ELSE x

\* Math.ceil(a / b) for a >= 0, b > 0
Ceil(a, b) == (a + b - 1) \div b

WeekOf(weekNumber) ==
    IF weekNumber <= 1 THEN "week1"
    ELSE IF weekNumber <= 2 THEN "week2"
    ELSE IF weekNumber <= 3 THEN "week3"
    ELSE "week4plus"

\* getCurrentWeek with the day count rounded down instead of up
getCurrentWeek_floorDays(ws, instant) ==
    LET diffTime == Abs(instant - ws.accountStartDate)
        diffDays == diffTime \div DayUnits
    IN  WeekOf(Ceil(diffDays, 7))

\* getCurrentWeek(), called at `instant`
getCurrentWeek(ws, instant) ==
    LET diffTime == Abs(instant - ws.accountStartDate)
        diffDays == Ceil(diffTime, DayUnits)
        weekNumber == Ceil(diffDays, 7)
    IN  WeekOf(weekNumber)

\* getCurrentLimits()
getCurrentLimits(ws, instant) == ws.customLimits[getCurrentWeek(ws, instant)]

\* shouldRespectWarmup()
shouldRespectWarmup(ws) == ws.enabled /\ ~ws.overrideWarmup

\* the document a lazily creating GET /warmup constructs: routes/settings.js
\* names enabled and phase, the per-user router also overrideWarmup: false
NewWarmup(k, t) ==
    IF k = "shared"
    THEN [SchemaDefaults(t) EXCEPT !.enabled = TRUE, !.phase = "auto"]
    ELSE [SchemaDefaults(t) EXCEPT !.enabled = TRUE, !.overrideWarmup = FALSE,
                                   !.phase = "auto"]

\* request bodies of PUT / POST /warmup: the paths the body names, and their values
UpdateData ==
    { [names |-> {}, enabled |-> TRUE, overrideWarmup |-> TRUE, phase |-> "auto"],
      [names |-> {"enabled"}, enabled |-> FALSE, overrideWarmup |-> TRUE, phase |-> "auto"],
      [names |-> {"phase"}, enabled |-> TRUE, overrideWarmup |-> TRUE, phase |-> "week1"],
      [names |-> {"enabled", "phase"}, enabled |-> TRUE, overrideWarmup |-> TRUE,
       phase |-> "week4plus"],
      [names |-> {"overrideWarmup"}, enabled |-> TRUE, overrideWarmup |-> FALSE,
       phase |-> "auto"] }

\* { $set: updateData } applied to a document
Set(doc, data) ==
    [doc EXCEPT !.enabled = IF "enabled" \in data.names THEN data.enabled ELSE @,
                !.overrideWarmup = IF "overrideWarmup" \in data.names
                                   THEN data.overrideWarmup ELSE @,
                !.phase = IF "phase" \in data.names THEN data.phase ELSE @]

\* GET /warmup up to the await of findOne
WarmupFind(p, k) ==
    /\ reqs[p].pc = "idle"
    /\ nreq < MaxRequests
    /\ nreq' = nreq + 1
    /\ IF warmup[k].exists
       THEN /\ resp' = [route |-> "GET /warmup", key |-> k, created |-> FALSE,
                        data |-> warmup[k]]
            /\ reqs' = reqs
       ELSE /\ resp' = resp
            /\ reqs' = [reqs EXCEPT ![p] = [pc |-> "insert", key |-> k,
                                            doc |-> NewWarmup(k, now)]]
    /\ UNCHANGED <<cron, warmup, limits, copies, licenses, now, base, incs, botVars>>

\* the save of the new document; a document another request has inserted in
\* the meantime stays the one findOne returns
WarmupInsert(p) ==
    LET r == reqs[p]
    IN  /\ r.pc = "insert"
        /\ warmup' = IF warmup[r.key].exists THEN warmup
                     ELSE [warmup EXCEPT ![r.key] = r.doc]
        /\ copies' = [copies EXCEPT !["WarmupSettings"][r.key] = @ + 1]
        /\ resp' = [route |-> "GET /warmup", key |-> r.key, created |-> TRUE,
                    data |-> r.doc]
        /\ reqs' = [reqs EXCEPT ![p] = Idle]
        /\ UNCHANGED <<cron, limits, licenses, now, base, incs, nreq, botVars>>

\* PUT / POST /warmup: findOneAndUpdate(filter, {$set}, {new: true, upsert: true});
\* an inserted document takes the schema defaults for the paths not named
WarmupUpsert(k, data) ==
    LET old == IF warmup[k].exists THEN warmup[k] ELSE SchemaDefaults(now)
    IN  /\ nreq < MaxRequests
        /\ nreq' = nreq + 1
        /\ warmup' = [warmup EXCEPT ![k] = Set(old, data)]
        /\ copies' = IF warmup[k].exists THEN copies
                     ELSE [copies EXCEPT !["WarmupSettings"][k] = @ + 1]
        /\ resp' = [route |-> "PUT /warmup", key |-> k, created |-> ~warmup[k].exists,
                    names |-> data.names, data |-> warmup'[k]]
        /\ UNCHANGED <<cron, limits, licenses, now, reqs, base, incs, botVars>>

\* getCurrentWeek() and getCurrentLimits() of a stored document, called on day `now`
CurrentLimits(k) ==
    /\ warmup[k].exists
    /\ resp' = [route |-> "getCurrentLimits", key |-> k, at |-> Today(now),
                doc |-> warmup[k],
                week |-> getCurrentWeek(warmup[k], Today(now)),
                limits |-> getCurrentLimits(warmup[k], Today(now))]
    /\ UNCHANGED <<cron, warmup, limits, copies, licenses, now, reqs, base, incs, nreq, botVars>>

GetWarmup == \E p \in Procs, k \in WarmupKeys : WarmupFind(p, k)

InsertWarmup == \E p \in Procs : WarmupInsert(p)

PutWarmup == \E k \in WarmupKeys, data \in UpdateData : WarmupUpsert(k, data)

ReadLimits == \E k \in WarmupKeys : CurrentLimits(k)

\* account ages, in days before day 0, around the week boundaries; each also
\* one unit longer, and one start date in the future
ElapsedDays == {0, 6, 7, 10, 13, 14, 20, 21, 22}

StartDates ==
    { -(d * DayUnits) - o : d \in ElapsedDays, o \in {0, 1} } \cup {8 * DayUnits}

StoredWarmups ==
    { [SchemaDefaults(0) EXCEPT !.phase = ph, !.accountStartDate = s] :
        ph \in {"auto", "week1", "week4plus"}, s \in StartDates }

\* the specification of getCurrentWeek / getCurrentLimits: a stored document
\* of any age and phase, read on successive days
InitWeek ==
    /\ licenses = [u \in Users |-> FreshTrial]
    /\ now = 0
    /\ reqs = [p \in Procs |-> Idle]
    /\ resp = NoResp
    /\ base = [u \in Users |-> licenses[u].totalUsage]
    /\ incs = [u \in Users |-> ZeroUsage]
    /\ nreq = 0
    /\ cron = [j \in Jobs |-> JobIdle]
    /\ \E d \in StoredWarmups :
          warmup = [k \in WarmupKeys |-> IF k = "u1" THEN d ELSE [exists |-> FALSE]]
    /\ limits = [k \in WarmupKeys |-> [exists |-> FALSE]]
    /\ copies = [c \in Collections |-> [k \in WarmupKeys |->
                    IF c = "WarmupSettings" /\ warmup[k].exists THEN 1 ELSE 0]]
    /\ botRecs = [u \in Users |-> [exists |-> FALSE]]
    /\ activeBots = {}
    /\ botStatuses = [u \in Users |-> "none"]
    /\ statusRecs = [u \in Users |-> [exists |-> FALSE]]

NextWeek ==
    \/ Tick
    \/ ReadLimits

SpecWeek == InitWeek /\ [][NextWeek]_vars

\* the specification of the /warmup routes: no document stored at first
InitWarmup == InitWith({FreshTrial})

NextWarmup ==
    \/ Tick
    \/ GetWarmup
    \/ InsertWarmup
    \/ PutWarmup

SpecWarmup == InitWarmup /\ [][NextWarmup]_vars

\* the elapsed time of the last getCurrentWeek call, in units
Elapsed == Abs(resp.at - resp.doc.accountStartDate)

\* C18: getCurrentWeek depends on the time elapsed since accountStartDate
\* only: up to 7 days give week1, more than 7 and up to 14 give week2, more
\* than 14 and up to 21 give week3, more than 21 give week4plus, whatever
\* the stored phase is.
C18_WeekFromElapsedDays ==
    resp.route = "getCurrentLimits"
    => /\ (Elapsed <= 7 * DayUnits) => resp.week = "week1"
       /\ (7 * DayUnits < Elapsed /\ Elapsed <= 14 * DayUnits) => resp.week = "week2"
       /\ (14 * DayUnits < Elapsed /\ Elapsed <= 21 * DayUnits) => resp.week = "week3"
       /\ (21 * DayUnits < Elapsed) => resp.week = "week4plus"

\* a document 22 days old whose stored phase is week1 is in week4plus
C18_Witness ==
    /\ resp.route = "getCurrentLimits"
    /\ Elapsed = 22 * DayUnits
    /\ resp.doc.phase = "week1"
    /\ resp.week = "week4plus"

-----------------------------------------------------------------------------
(* The authorization of a quota action while a warm-up document is stored *)

\* warm-up documents of a new account: pacing respected, or overridden
PacingWarmups ==
    { [SchemaDefaults(0) EXCEPT !.enabled = e, !.overrideWarmup = o] :
        e \in BOOLEAN, o \in BOOLEAN }

\* the same document under the principal's key and as the shared document
InitPacing ==
    /\ \E d \in LicenseDocsOf("trial", {0}) \cup LicenseDocsOf("premium", {0}) :
          licenses = [u \in Users |-> IF u = "u1" THEN d ELSE FreshTrial]
    /\ now = 0
    /\ reqs = [p \in Procs |-> Idle]
    /\ resp = NoResp
    /\ base = [u \in Users |-> licenses[u].totalUsage]
    /\ incs = [u \in Users |-> ZeroUsage]
    /\ nreq = 0
    /\ cron = [j \in Jobs |-> JobIdle]
    /\ \E w \in PacingWarmups : warmup = [k \in WarmupKeys |-> w]
    /\ limits = [k \in WarmupKeys |-> [exists |-> FALSE]]
    /\ copies = [c \in Collections |-> [k \in WarmupKeys |->
                    IF c = "WarmupSettings" THEN 1 ELSE 0]]
    /\ NoBots

\* POST /check-permission for a quota action
CheckQuota == \E u \in Users, a \in {"connection", "message"} :
                 GatedRequest(u, "/check-permission", a)

NextPacing ==
    \/ Tick
    \/ CheckQuota

SpecPacing == InitPacing /\ [][NextPacing]_vars

Min(a, b) == IF a < b THEN a ELSE b

\* the daily connection cap the warm-up document of principal u allows at day t
WarmupCap(u, t) == getCurrentLimits(warmup[u], Today(t)).daily

\* the cap on connections that is to be enforced for principal u at day t
EffectiveCap(u, t) ==
    IF shouldRespectWarmup(warmup[u])
    THEN Min(licenses[u].permissions.maxDailyConnections, WarmupCap(u, t))
    ELSE licenses[u].permissions.maxDailyConnections

\* C19: the cap enforced on a connection is the smaller of the tier cap and
\* the warm-up daily cap while warm-up is respected and the tier cap
\* otherwise: a principal with a valid license is allowed the action exactly
\* when the connections used are below that cap.
C19_EffectiveCapEnforced ==
    (resp.route = "gated" /\ resp.action = "connection" /\ resp.result = "next"
       /\ isLicenseValid(licenses[resp.user], resp.at))
    => (resp.canPerform
          <=> licenses[resp.user].totalUsage.connectionsUsed < EffectiveCap(resp.user, resp.at))

-----------------------------------------------------------------------------
(* Lazily created warm-up documents *)

\* the paths the request that created the document has named
NamedPaths == IF resp.route = "PUT /warmup" THEN resp.names ELSE {}

\* the last response reports a document its request has created
CreatedWarmup == resp.route \in {"GET /warmup", "PUT /warmup"} /\ resp.created

\* C20: a warm-up document created by the first GET /warmup, or by an upsert
\* that does not name the path, has enabled = true and overrideWarmup =
\* false, so that shouldRespectWarmup() is true for a document created with
\* defaults only.
C20_PacingActiveByDefault ==
    CreatedWarmup
    => /\ ("enabled" \notin NamedPaths) => resp.data.enabled
       /\ ("overrideWarmup" \notin NamedPaths) => ~resp.data.overrideWarmup
       /\ (NamedPaths \cap {"enabled", "overrideWarmup"} = {})
            => shouldRespectWarmup(resp.data)

-----------------------------------------------------------------------------
(* DailyLimits: the schema and the /limits, /daily-limits and /save      *)
(* routes of both settings routers                                       *)

\* "settings": routes/settings.js, one document for all (findOne());
\* "peruser": the router with identifyCurrentUser, documents by userId
Routers == {"settings", "peruser"}

KeyOf(router, u) == IF router = "settings" THEN "shared" ELSE u

\* defaults of the DailyLimits schema
LimitDefaults ==
    [exists |-> TRUE, maxConnections |-> 8, maxDirectMessages |-> 2,
     maxProfileViews |-> 50, maxSearches |-> 10]

\* the min / max validators of the schema, run by save()
SchemaValid(doc) ==
    /\ 1 <= doc.maxConnections /\ doc.maxConnections <= 50
    /\ 1 <= doc.maxDirectMessages /\ doc.maxDirectMessages <= 20
    /\ 10 <= doc.maxProfileViews /\ doc.maxProfileViews <= 500
    /\ 1 <= doc.maxSearches /\ doc.maxSearches <= 50

\* req.licenseInfo.permissions: nothing sets req.licenseInfo before
\* setDefaultLicenseInfo, which fills in these constants
licenseInfo(router) ==
    IF router = "settings"
    THEN [maxDailyConnections |-> 100, maxDailyMessages |-> 50]
    ELSE [maxDailyConnections |-> 50, maxDailyMessages |-> 20]

\* the document GET /limits constructs when it finds none
NewLimits(router) ==
    IF router = "settings"
    THEN [LimitDefaults EXCEPT
            !.maxConnections = licenseInfo(router).maxDailyConnections,
            !.maxDirectMessages = licenseInfo(router).maxDailyMessages]
    ELSE [LimitDefaults EXCEPT !.maxConnections = 8, !.maxDirectMessages = 3,
                               !.maxProfileViews = 50, !.maxSearches = 10]

\* request bodies: the caps the body names, and their values
LimitsData ==
    { [names |-> {"maxConnections"}, maxConnections |-> 4, maxDirectMessages |-> 2],
      [names |-> {"maxConnections", "maxDirectMessages"},
       maxConnections |-> 100, maxDirectMessages |-> 50],
      [names |-> {"maxDirectMessages"}, maxConnections |-> 8, maxDirectMessages |-> 30],
      [names |-> {"maxConnections"}, maxConnections |-> 200, maxDirectMessages |-> 2] }

\* the isInt validators of PUT /limits
BodyValid(data) ==
    /\ "maxConnections" \in data.names
         => (1 <= data.maxConnections /\ data.maxConnections <= 100)
    /\ "maxDirectMessages" \in data.names
         => (1 <= data.maxDirectMessages /\ data.maxDirectMessages <= 50)

\* "Enforce license limits" of PUT /limits
ClampToLicense(data, router) ==
    [data EXCEPT
       !.maxConnections =
           IF "maxConnections" \in data.names /\ @ > licenseInfo(router).maxDailyConnections
           THEN licenseInfo(router).maxDailyConnections ELSE @,
       !.maxDirectMessages =
           IF "maxDirectMessages" \in data.names /\ @ > licenseInfo(router).maxDailyMessages
           THEN licenseInfo(router).maxDailyMessages ELSE @]

\* { $set: updateData } applied to a DailyLimits document
SetLimits(doc, data) ==
    [doc EXCEPT
       !.maxConnections = IF "maxConnections" \in data.names
                          THEN data.maxConnections ELSE @,
       !.maxDirectMessages = IF "maxDirectMessages" \in data.names
                             THEN data.maxDirectMessages ELSE @]

\* GET /limits (and GET /daily-limits) up to the await of findOne
LimitsFind(p, u, router) ==
    LET k == KeyOf(router, u)
    IN  /\ reqs[p].pc = "idle"
        /\ nreq < MaxRequests
        /\ nreq' = nreq + 1
        /\ IF limits[k].exists
           THEN /\ resp' = [route |-> "GET /limits", router |-> router, user |-> u,
                            result |-> "200", data |-> limits[k]]
                /\ reqs' = reqs
           ELSE /\ resp' = resp
                /\ reqs' = [reqs EXCEPT ![p] =
                              [pc |-> "insertLimits", user |-> u, router |-> router,
                               doc |-> NewLimits(router)]]
        /\ UNCHANGED <<cron, warmup, limits, copies, licenses, now, base, incs, botVars>>

\* await limits.save(): validation, then the insert of one more document
LimitsInsert(p) ==
    LET r == reqs[p]
        k == KeyOf(r.router, r.user)
    IN  /\ r.pc = "insertLimits"
        /\ IF SchemaValid(r.doc)
           THEN /\ limits' = IF limits[k].exists THEN limits
                             ELSE [limits EXCEPT ![k] = r.doc]
                /\ copies' = [copies EXCEPT !["DailyLimits"][k] = @ + 1]
                /\ resp' = [route |-> "GET /limits", router |-> r.router, user |-> r.user,
                            result |-> "200", data |-> r.doc]
           ELSE /\ UNCHANGED <<limits, copies>>
                /\ resp' = [route |-> "GET /limits", router |-> r.router, user |-> r.user,
                            result |-> "500", data |-> [exists |-> FALSE]]
        /\ reqs' = [reqs EXCEPT ![p] = Idle]
        /\ UNCHANGED <<cron, warmup, licenses, now, base, incs, nreq, botVars>>

\* findOneAndUpdate(filter, {$set}, {new: true, upsert: true}): no
\* validators run; an inserted document takes the schema defaults
UpsertLimits(k, data) ==
    LET old == IF limits[k].exists THEN limits[k] ELSE LimitDefaults
    IN  /\ limits' = [limits EXCEPT ![k] = SetLimits(old, data)]
        /\ copies' = IF limits[k].exists THEN copies
                     ELSE [copies EXCEPT !["DailyLimits"][k] = @ + 1]

\* PUT /limits
LimitsPut(u, router, data) ==
    /\ nreq < MaxRequests
    /\ nreq' = nreq + 1
    /\ IF BodyValid(data)
       THEN /\ UpsertLimits(KeyOf(router, u), ClampToLicense(data, router))
            /\ resp' = [route |-> "PUT /limits", router |-> router, user |-> u,
                        result |-> "200", data |-> limits'[KeyOf(router, u)]]
       ELSE /\ UNCHANGED <<limits, copies>>
            /\ resp' = [route |-> "PUT /limits", router |-> router, user |-> u,
                        result |-> "400", data |-> [exists |-> FALSE]]
    /\ UNCHANGED <<cron, warmup, licenses, now, reqs, base, incs, botVars>>

\* POST /daily-limits, and POST /save with dailyLimits in the body
LimitsPost(u, data) ==
    /\ nreq < MaxRequests
    /\ nreq' = nreq + 1
    /\ UpsertLimits(u, data)
    /\ resp' = [route |-> "POST /daily-limits", router |-> "peruser", user |-> u,
                result |-> "200", data |-> limits'[u]]
    /\ UNCHANGED <<cron, warmup, licenses, now, reqs, base, incs, botVars>>

GetLimits == \E p \in Procs, u \in Users, router \in Routers : LimitsFind(p, u, router)

InsertLimits == \E p \in Procs : LimitsInsert(p)

PutLimits == \E u \in Users, router \in Routers, data \in LimitsData :
                LimitsPut(u, router, data)

PostLimits == \E u \in Users, data \in LimitsData : LimitsPost(u, data)

\* principals of every tier, no settings document stored
InitLimits ==
    InitWith({ [FreshTrial EXCEPT !.licenseType = t, !.permissions = TierPermissions(t)] :
                 t \in Tiers })

NextLimits ==
    \/ GetLimits
    \/ InsertLimits
    \/ PutLimits
    \/ PostLimits

SpecLimits == InitLimits /\ [][NextLimits]_vars

\* the DailyLimits documents principal u is served: its own, and the shared one
LimitsOf(u) == { limits[k] : k \in {u, "shared"} }

\* C21: every cap stored in a principal's DailyLimits record is at most the
\* maximum of the principal's tier (connections against maxDailyConnections,
\* direct messages against maxDailyMessages).
C21_CapsWithinTier ==
    \A u \in Users : \A doc \in LimitsOf(u) :
        doc.exists
        => /\ doc.maxConnections <= TierPermissions(licenses[u].licenseType).maxDailyConnections
           /\ doc.maxDirectMessages <= TierPermissions(licenses[u].licenseType).maxDailyMessages

-----------------------------------------------------------------------------
(* First accesses: find, then create with defaults when absent *)

InitFirst == InitWith({FreshTrial})

NextFirst ==
    \/ GetLimits
    \/ InsertLimits
    \/ GetWarmup
    \/ InsertWarmup

SpecFirst == InitFirst /\ [][NextFirst]_vars

\* C22: for every principal at most one DailyLimits document and at most
\* one WarmupSettings document is stored, also when first accesses of one
\* principal run concurrently.
C22_OneRecordPerPrincipal ==
    \A c \in Collections, u \in Users : copies[c][u] <= 1

-----------------------------------------------------------------------------
(* Settings updates and the documents the principals are served *)

NextOwn ==
    \/ PutLimits
    \/ PostLimits
    \/ PutWarmup

SpecOwn == InitFirst /\ [][NextOwn]_vars

\* the DailyLimits and WarmupSettings documents a router serves principal u
Served(u, router) == <<limits[KeyOf(router, u)], warmup[KeyOf(router, u)]>>

\* C23: a settings update, made by one principal, changes the DailyLimits and
\* WarmupSettings documents served to at most that one principal.
C23_UpdateIsPrivate ==
    [][\A router \in Routers :
         Cardinality({u \in Users : Served(u, router)' # Served(u, router)}) <= 1]_vars

-----------------------------------------------------------------------------
(* Creation of principals and assignment of tiers *)

\* defaults of the permissions paths of UserLicenseSchema
SchemaPermissions ==
    [maxDailyConnections |-> 10, maxDailyMessages |-> 5, maxSearchKeywords |-> 5,
     canUseAdvancedFeatures |-> FALSE, canExportData |-> FALSE, canUseAPI |-> FALSE]

\* the default of expiresAt, and the expiry of createTrialLicense: 30 days
TrialExpiry(t) == t + getLicenseDuration("trial")

\* durationDays of POST /upgrade (30 to 1095, 365 when absent)
Durations == {30, 365}

\* a new document replaces what is stored for u, usage at zero
StoreNew(u, doc) ==
    /\ licenses' = [licenses EXCEPT ![u] = doc]
    /\ base' = [base EXCEPT ![u] = ZeroUsage]
    /\ incs' = [incs EXCEPT ![u] = ZeroUsage]

\* POST /register: UserLicense.createTrialLicense
Register(u) ==
    /\ StoreNew(u, [isActive |-> TRUE, expiresAt |-> TrialExpiry(now),
                    licenseType |-> "trial", permissions |-> TierPermissions("trial"),
                    totalUsage |-> ZeroUsage])
    /\ resp' = [route |-> "register", user |-> u, tier |-> "trial", result |-> "201"]
    /\ UNCHANGED <<cron, warmup, limits, copies, now, reqs, nreq, botVars>>

\* POST /upgrade: UserLicense.upgradeLicense(userId, licenseType, durationDays)
UpgradeLicense(u, t, durationDays) ==
    /\ licenses' = [licenses EXCEPT ![u] =
           [@ EXCEPT !.licenseType = t, !.expiresAt = now + durationDays,
                     !.permissions = TierPermissions(t), !.isActive = TRUE]]
    /\ resp' = [route |-> "upgrade", user |-> u, tier |-> t, result |-> "200"]
    /\ UNCHANGED <<cron, warmup, limits, copies, now, reqs, base, incs, nreq, botVars>>

\* POST /users of the settings routers: new UserLicense({..., licenseType,
\* isActive: true}); permissions and expiresAt take the schema defaults
CreateUser(u, t) ==
    /\ StoreNew(u, [isActive |-> TRUE, expiresAt |-> TrialExpiry(now),
                    licenseType |-> t, permissions |-> SchemaPermissions,
                    totalUsage |-> ZeroUsage])
    /\ resp' = [route |-> "POST /users", user |-> u, tier |-> t, result |-> "200"]
    /\ UNCHANGED <<cron, warmup, limits, copies, now, reqs, nreq, botVars>>

RegisterUser == \E u \in Users : Register(u)

Upgrade == \E u \in Users, t \in Tiers \ {"trial"}, d \in Durations : UpgradeLicense(u, t, d)

NewUser == \E u \in Users, t \in Tiers : CreateUser(u, t)

NextTiers ==
    \/ Tick
    \/ RegisterUser
    \/ NewLicense
    \/ Upgrade
    \/ NewUser

SpecTiers == InitCatalog /\ [][NextTiers]_vars

\* C24: whenever a principal is created or assigned a tier, its stored
\* permissions are those of the tier, and a principal created on
\* registration is a trial expiring 30 days later.
C24_PermissionsOfTier ==
    [][\A u \in Users :
         licenses'[u] # licenses[u]
         => /\ licenses'[u].permissions = TierPermissions(licenses'[u].licenseType)
            /\ resp'.route = "register"
                 => (licenses'[u].licenseType = "trial"
                       /\ licenses'[u].expiresAt = now + 30)]_vars

-----------------------------------------------------------------------------
(* Feature-gated actions and the data export route *)

\* the two mounts of the analytics router: behind authMiddleware, and public
Mounts == {"/api/analytics", "/api/public/analytics"}

\* user.canPerformAction(action) of a stored license, called on day `now`
FeatureCheck(u, a) ==
    /\ resp' = [route |-> "canPerformAction", user |-> u, action |-> a, at |-> now,
                doc |-> licenses[u], value |-> canPerformAction(licenses[u], a, now)]
    /\ UNCHANGED <<cron, warmup, limits, copies, licenses, now, reqs, base, incs, nreq, botVars>>

\* GET /export: on the public mount req.user is undefined and
\* user.canPerformAction throws into the catch
Export(u, mount) ==
    LET doc == licenses[u]
        result == IF mount = "/api/public/analytics" THEN "500 Data export failed"
                  ELSE IF authMiddleware(doc) # "next" THEN authMiddleware(doc)
                  ELSE IF ~canPerformAction(doc, "export_data", now)
                  THEN "403 Data export requires premium or enterprise license"
                  ELSE "200"
    IN  /\ resp' = [route |-> "export", user |-> u, mount |-> mount, at |-> now,
                    doc |-> doc, result |-> result]
        /\ UNCHANGED <<cron, warmup, limits, copies, licenses, now, reqs, base, incs, nreq, botVars>>

CheckFeature == \E a \in FeatureActions : FeatureCheck("u1", a)

ExportData == \E mount \in Mounts : Export("u1", mount)

\* the tier of the principal changes: upgraded for a year, or created anew
\* by POST /users
UpgradeOne == \E t \in Tiers \ {"trial"} : UpgradeLicense("u1", t, 365)

NewUserOne == \E t \in Tiers : CreateUser("u1", t)

\* a license of any tier, active or not, expiring on day 1 or not at all
FeatureDocs ==
    { [FreshTrial EXCEPT !.licenseType = t, !.permissions = TierPermissions(t),
                         !.isActive = a, !.expiresAt = e] :
        t \in Tiers, a \in BOOLEAN, e \in {1, MaxNow + 1} }

InitFeature == InitWith(FeatureDocs)

NextFeature ==
    \/ Tick
    \/ UpgradeOne
    \/ NewUserOne
    \/ CheckFeature
    \/ ExportData

SpecFeature == InitFeature /\ [][NextFeature]_vars

\* the flag of the catalog entry of tier t that gates action a
TierFlag(t, a) ==
    CASE a = "export_data" -> TierPermissions(t).canExportData
      [] a = "api_access" -> TierPermissions(t).canUseAPI
      [] a = "advanced_features" -> TierPermissions(t).canUseAdvancedFeatures

-----------------------------------------------------------------------------
(* isLimitReached and getRemainingCount of a DailyLimits document *)

\* type names: the four of the switch, and one it does not know
LimitTypes == {"connections", "messages", "views", "searches", "profile_views"}

\* the cap a type name selects (0: the default branch, no cap)
CapOf(doc, type) ==
    CASE type = "connections" -> doc.maxConnections
      [] type = "messages" -> doc.maxDirectMessages
      [] type = "views" -> doc.maxProfileViews
      [] type = "searches" -> doc.maxSearches
      [] OTHER -> 0

KnownType(type) == type \in {"connections", "messages", "views", "searches"}

Max(a, b) == IF a > b THEN a ELSE b

\* isLimitReached(type, currentCount)
isLimitReached(doc, type, currentCount) ==
    IF KnownType(type) THEN currentCount >= CapOf(doc, type) ELSE FALSE

\* getRemainingCount(type, currentCount)
getRemainingCount(doc, type, currentCount) ==
    IF KnownType(type) THEN Max(0, CapOf(doc, type) - currentCount) ELSE 0

\* current counts around the caps of the stored documents
Counts == {0, 1, 2, 3, 7, 8, 9, 10, 11, 49, 50, 51}

\* both methods called on the stored document of key k
Remaining(k, type, c) ==
    /\ limits[k].exists
    /\ resp' = [route |-> "remaining", key |-> k, type |-> type, count |-> c,
                doc |-> limits[k],
                remaining |-> getRemainingCount(limits[k], type, c),
                reached |-> isLimitReached(limits[k], type, c)]
    /\ UNCHANGED <<cron, warmup, limits, copies, licenses, now, reqs, base, incs, nreq, botVars>>

AskRemaining == \E type \in LimitTypes, c \in Counts : Remaining("u1", type, c)

SaveLimits == \E data \in LimitsData : LimitsPost("u1", data)

\* the principal has the document which GET /limits creates
InitRemaining ==
    /\ licenses = [u \in Users |-> FreshTrial]
    /\ now = 0
    /\ reqs = [p \in Procs |-> Idle]
    /\ resp = NoResp
    /\ base = [u \in Users |-> licenses[u].totalUsage]
    /\ incs = [u \in Users |-> ZeroUsage]
    /\ nreq = 0
    /\ cron = [j \in Jobs |-> JobIdle]
    /\ warmup = [k \in WarmupKeys |-> [exists |-> FALSE]]
    /\ limits = [k \in WarmupKeys |-> IF k = "u1" THEN NewLimits("peruser")
                                      ELSE [exists |-> FALSE]]
    /\ copies = [c \in Collections |-> [k \in WarmupKeys |->
                    IF c = "DailyLimits" /\ k = "u1" THEN 1 ELSE 0]]
    /\ NoBots

NextRemaining ==
    \/ SaveLimits
    \/ AskRemaining

SpecRemaining == InitRemaining /\ [][NextRemaining]_vars

\* C26: for every limit type, also one the record does not know, and every
\* current count c, isLimitReached(type, c) is true exactly when
\* getRemainingCount(type, c) is 0, and getRemainingCount is max(0, cap - c).
C26_ReachedIffNoneRemaining ==
    resp.route = "remaining"
    => /\ resp.remaining = Max(0, CapOf(resp.doc, resp.type) - resp.count)
       /\ resp.reached <=> (resp.remaining = 0)

-----------------------------------------------------------------------------
(* Requests in flight during the daily reset *)

\* a resetDailyUsage has completed: the usage recorded before it is void
\* (every license of MaintDocs starts with connections used)
ResetDone == base["u1"].connectionsUsed = 0

\* no request and no callback is between two awaits
Quiescent == NoneInFlight /\ \A j \in Jobs : cron[j].pc = "idle"

\* C27: once a resetDailyUsage and every request in flight during it have
\* completed, each daily counter is at most the number of incrementUsage
\* calls that completed after the reset: a request that loaded its license
\* before the reset does not bring the usage of before back.
C27_ResetNotUndone ==
    (ResetDone /\ Quiescent)
    => \A path \in DailyPaths :
          licenses["u1"].totalUsage[path] <= incs["u1"][path]

-----------------------------------------------------------------------------
(* The in-memory maps of BotService and the persisted bot records *)

\* the maps of BotService hold u as running
RunningInMemory(u) == u \in activeBots /\ botStatuses[u] = "running"

\* C28: after any sequence of startBot and stopBot calls, successful or
\* failed, a principal is in activeBots with botStatuses value 'running'
\* exactly when its persisted bot record has isRunning true.
C28_MemoryMatchesRecord ==
    NoneInFlight
    => \A u \in Users :
          RunningInMemory(u) <=> (botRecs[u].exists /\ botRecs[u].isRunning)

-----------------------------------------------------------------------------
(* Bot records under getBotStatus, enableBot and disableBot *)

\* botStatus is 'enable' exactly when isRunning is true
Coherent(rec) == rec.exists => ((rec.botStatus = "enable") <=> rec.isRunning)

\* C29: in every state of a bot record botStatus is 'enable' exactly when
\* isRunning is true; enableBot(u, l) leaves the record of u running with
\* license l, disableBot(u) leaves it not running with its license
\* unchanged, and no step of a request for u changes the record of another
\* user.
C29_BotRecordCoherent ==
    [][/\ \A u \in Users : Coherent(botRecs'[u])
       /\ \A p \in Procs :
            (Steps(p) /\ reqs[p].pc \in {"find", "create", "write"})
            => LET u == reqs[p].user
               IN  /\ \A v \in Users \ {u} : botRecs'[v] = botRecs[v]
                   /\ (reqs[p].pc = "write" /\ reqs[p].route = "start")
                        => (IsRunningRec(botRecs'[u])
                              /\ botRecs'[u].license = reqs[p].license)
                   /\ (reqs[p].pc = "write" /\ reqs[p].route # "start")
                        => (IsStoppedRec(botRecs'[u])
                              /\ (botRecs[u].exists
                                    => botRecs'[u].license = botRecs[u].license))]_vars

\* a record enabled with the premium license has been disabled and has kept it
C29_Witness ==
    /\ resp.route \in {"stop", "emergency-stop"}
    /\ resp.result = "200"
    /\ IsStoppedRec(botRecs[resp.user])
    /\ botRecs[resp.user].license = "premium"

-----------------------------------------------------------------------------
(* getCurrentWeek as the clock advances *)

\* the order of the phases
Rank(week) ==
    CASE week = "week1" -> 1
      [] week = "week2" -> 2
      [] week = "week3" -> 3
      [] week = "week4plus" -> 4

\* C30: with accountStartDate fixed, the phase getCurrentWeek returns never
\* moves to an earlier phase as the clock advances, also for an
\* accountStartDate that lies after the current time.
C30_PhaseNeverMovesBack ==
    [][now' > now
       => Rank(getCurrentWeek(warmup["u1"], Today(now')))
            >= Rank(getCurrentWeek(warmup["u1"], Today(now)))]_vars

====
